---- MODULE Spec2Model ----
(***************************************************************************)
(* Model of src/MDAF_benchmarks/objective_function.py: the ObjectiveFunction *)
(* base class (construction, parameters, shift, noise, call counter,        *)
(* single-call evaluation, constraints, save and load) and its parallel     *)
(* decoupled-evaluation engine                                              *)
(* (parallel_evaluate with the staging file, the module import and the      *)
(* process pool).                                                           *)
(*                                                                          *)
(* Conventions.  A numpy vector is a sequence of integers (the integers     *)
(* stand for exactly representable floats).  A position handed to an        *)
(* evaluator is a sequence of rows (position.shape[0] rows, line 267); the  *)
(* ordinary single position is a one-row sequence.  An optional value is a  *)
(* sequence of length at most one: <<>> is None / absent.                   *)
(* A file is written in two steps, open and close: text reaches the file    *)
(* when it is closed.  The text of the staging file is kept character by    *)
(* character, and importing it parses that text.                            *)
(***************************************************************************)
EXTENDS Integers, Sequences, FiniteSets, TLC

VARIABLES
    inst,        \* thread -> its ObjectiveFunction instance (the object's fields)
    file,        \* the file at DECOUPLED_FUNCTION_PATH: <<>> or <<[code, owner]>>, code <<>> or <<text>>
    sys_modules, \* the process's module table entry for decoupled_evaluate: <<>> or <<module>>
    pc,          \* thread -> position inside parallel_evaluate
    call,        \* thread -> the locals of its parallel_evaluate call
    ret,         \* thread -> what its last single-call evaluation returned
    ctor,        \* the last construction attempt and its outcome
    workload,    \* which threads run and which inputs they draw from (fixed by Init)
    saved,       \* the file at the path given to save and load: <<>> or <<contents>>
    layout       \* whether the package the import statement names is the directory of
                 \* DECOUPLED_FUNCTION_PATH ("same") or another one ("apart"); fixed by Init

vars == <<inst, file, sys_modules, pc, call, ret, ctor, workload, saved, layout>>

(***************************** bounds ***************************************)
\* Longest positions collection handed to parallel_evaluate.
MaxPositions == 2
\* Cap on the call counter (it grows without bound in the program).
MaxCalls == 3
\* Largest dimensionality tried by a construction.
MaxDim == 2
\* Cap on the magnitude of a coordinate of the (accumulating) optimum.
MaxOpt == 2

Threads == {"A", "B"}

(************************** numpy helpers ***********************************)
Range(s) == {s[i] : i \in 1..Len(s)}

\* np.any(x) / any(x): some element is non-zero.
any(v) == \E i \in 1..Len(v) : v[i] # 0

\* Broadcasting of two vectors for a binary ufunc: equal lengths, or one of
\* them has length 1.
Broadcastable(a, b) == Len(a) = Len(b) \/ Len(a) = 1 \/ Len(b) = 1

At(v, i) == IF Len(v) = 1 THEN v[1] ELSE v[i]

BLen(a, b) == IF Len(a) >= Len(b) THEN Len(a) ELSE Len(b)

\* a - b with broadcasting (defined when Broadcastable(a, b)).
VecSub(a, b) == [i \in 1..BLen(a, b) |-> At(a, i) - At(b, i)]

\* a += b: the output keeps a's shape, so b must broadcast INTO a.
InplaceOK(a, b) == Len(b) = Len(a) \/ Len(b) = 1

VecIAdd(a, b) == [i \in 1..Len(a) |-> a[i] + At(b, i)]

RECURSIVE SumSq(_)
SumSq(v) == IF v = <<>> THEN 0 ELSE Head(v) * Head(v) + SumSq(Tail(v))

\* Vectors of a given length over a set of coordinates.
Vecs(S, n) == [1..n -> S]

Zeros(n) == [i \in 1..n |-> 0]

(*************************** the formula ************************************)
\* The concrete benchmark formula of the checked instances: the sphere
\* function sum(x_i^2), one value per row of the position.
evaluate(position) == [k \in 1..Len(position) |-> SumSq(position[k])]

\* The outcome of running an evaluator: it raised, or it returned an array.
Raised == [raised |-> TRUE, val |-> <<>>]
Returned(v) == [raised |-> FALSE, val |-> v]

(**************************** construction **********************************)
NoOptimum == [kind |-> "none", pts |-> <<>>]
OnePoint(v) == [kind |-> "point", pts |-> <<v>>]
ManyPoints(ps) == [kind |-> "points", pts |-> ps]

\* np.any(self.optimal_solution_position), line 147.
AnyOptimum(opt) == \E k \in 1..Len(opt.pts) : any(opt.pts[k])

\* Lines 149-152: the measured dimensionality of the optimum.
optimal_solution_dim(opt) == Len(opt.pts[1])

\* ObjectiveFunction.__init__ accepts the attributes the subclass set.
InitAccepts(ndim, bounds, opt) ==
    IF AnyOptimum(opt)
    THEN /\ ~(opt.kind # "none" /\ optimal_solution_dim(opt) # ndim)
         /\ Len(bounds) = ndim
    ELSE TRUE

\* The instance __init__ leaves behind (lines 169-175); parameters is the
\* empty mapping the constructor wrapper sets first (line 131).
NewInstance(ndim, bounds, opt) ==
    [ndim |-> ndim,
     search_space_bounds |-> bounds,
     optimal_solution_position |-> opt,
     shift |-> Zeros(ndim),
     noise_mean |-> 0,
     noise_variance |-> 0,
     nb_calls |-> 0,
     parameters |-> <<>>]

(*********************** instance operations ********************************)
\* Inputs of the single-call operations.
P11 == << <<1, 1>> >>
P22 == << <<2, 2>> >>
P111 == << <<1, 1, 1>> >>
PStack == << <<1, 1>>, <<2, 2>> >>
PositionInputs == {P11, P22, P111, PStack}

\* Shift vectors passed to apply_shift.
ShiftInputs == {<<0, 0>>, <<1, 1>>, <<0, 1>>, <<-1, 1>>}

\* Values np.random.randn can contribute (stand-ins for the real samples).
Samples == {-1, 0, 1}

NoResult == [op |-> "none", arg |-> <<>>, out |-> Returned(<<>>)]
Result(op, arg, out) == [op |-> op, arg |-> arg, out |-> out]

\* Positions collections of at most n positions.
Batches(n) == UNION {[1..k -> PositionInputs] : k \in 0..n}

\* The threads of a workload, and the positions collections and the shift
\* vectors they pass.
ThreadsOf(w) ==
    IF w = "two_threads" THEN Threads
    ELSE IF w = "construction" THEN {}
    ELSE {"A"}

BatchesOf(w) ==
    IF w = "one_thread" THEN Batches(MaxPositions)
    ELSE IF w = "two_threads" THEN {<<P11>>, <<PStack>>}
    ELSE {}

\* Shift vectors whose length is not the dimensionality of the instances.
WrongLengthShifts == {<<1>>, <<1, 1, 1>>}

ShiftsOf(w) ==
    IF w = "two_threads" THEN {<<0, 0>>, <<1, 1>>}
    ELSE IF w = "single_call" THEN ShiftInputs \cup WrongLengthShifts
    ELSE IF w = "construction" THEN {}
    ELSE ShiftInputs

\* Where the process runs.  DECOUPLED_FUNCTION_PATH (line 23) is relative to
\* the working directory and names ./src/objective_functions/tmp/; the
\* import statement (line 332) names the package MDAF_benchmarks.tmp.  The
\* two are the same directory only when the process is set up that way.
Layouts == {"same", "apart"}

LayoutsOf(w) ==
    IF w \in {"one_thread", "two_threads"} THEN Layouts ELSE {"same"}

\* Thread c exists in this workload and is not inside parallel_evaluate.
Idle(c) == c \in ThreadsOf(workload) /\ pc[c] = "idle"

\* optimal_solution_position += shift (line 637), on every stored point.
ShiftOptimumOK(opt, shift) ==
    \A k \in 1..Len(opt.pts) : InplaceOK(opt.pts[k], shift)

ShiftOptimum(opt, shift) ==
    [opt EXCEPT !.pts = [k \in 1..Len(opt.pts) |-> VecIAdd(opt.pts[k], shift)]]

WithinCap(opt) ==
    \A k \in 1..Len(opt.pts) : \A i \in 1..Len(opt.pts[k]) :
        opt.pts[k][i] >= -MaxOpt /\ opt.pts[k][i] <= MaxOpt

\* The instance after apply_shift(shift) returned (lines 635-640).
Shifted(o, shift) ==
    [o EXCEPT
        !.optimal_solution_position =
            IF o.optimal_solution_position.kind # "none"
            THEN ShiftOptimum(o.optimal_solution_position, shift)
            ELSE o.optimal_solution_position,
        !.shift = shift]

\* apply_shift: the in-place addition raises before the shift is stored
\* when the shift does not broadcast into the optimum.
apply_shift(c, shift) ==
    /\ Idle(c)
    /\ LET o == inst[c]
           opt == o.optimal_solution_position
       IN IF opt.kind # "none" /\ ~ShiftOptimumOK(opt, shift)
          THEN /\ ret' = [ret EXCEPT ![c] = Result("apply_shift", shift, Raised)]
               /\ UNCHANGED inst
          ELSE /\ WithinCap(Shifted(o, shift).optimal_solution_position)
               /\ inst' = [inst EXCEPT ![c] = Shifted(o, shift)]
               /\ ret' = [ret EXCEPT ![c] =
                             Result("apply_shift", shift, Returned(<<>>))]
    /\ UNCHANGED <<file, sys_modules, pc, call, ctor, workload, saved, layout>>

\* apply_noise (lines 654-656).
\* The instance after apply_noise(mean, variance) returned.
Noised(o, mean, variance) ==
    [o EXCEPT !.noise_mean = mean, !.noise_variance = variance]

apply_noise(c, mean, variance) ==
    /\ Idle(c)
    /\ inst' = [inst EXCEPT ![c] = Noised(@, mean, variance)]
    /\ ret' = [ret EXCEPT ![c] =
                  Result("apply_noise", <<mean, variance>>, Returned(<<>>))]
    /\ UNCHANGED <<file, sys_modules, pc, call, ctor, workload, saved, layout>>

\* The declared parameters of the instance's class, with their defaults.
DeclaredDefaults == [a |-> 1, b |-> 2]

\* Parameter mappings a caller supplies: any keys among two declared names
\* and one undeclared name.
ParameterInputs == UNION {[S -> {5, 6}] : S \in SUBSET {"a", "b", "x"}}

\* The two checks of validate_parameters (lines 194-204).
ParametersAccepted(parameters, default_params) ==
    /\ ~(Cardinality(DOMAIN parameters) > Cardinality(DOMAIN default_params))
    /\ \A parameter_name \in DOMAIN parameters :
           parameter_name \in DOMAIN default_params

\* The stores of validate_parameters into self.parameters (lines 207-215).
StoreParameters(old, parameters, default_params) ==
    [parameter_name \in DOMAIN old \cup DOMAIN default_params |->
        IF parameter_name \in DOMAIN default_params
        THEN IF parameter_name \in DOMAIN parameters
             THEN parameters[parameter_name]
             ELSE default_params[parameter_name]
        ELSE old[parameter_name]]

\* A variant that stores only what the caller supplied.
validate_parameters_supplied_only(c, parameters, default_params) ==
    /\ Idle(c)
    /\ inst' = IF ParametersAccepted(parameters, default_params)
               THEN [inst EXCEPT ![c].parameters = parameters]
               ELSE inst
    /\ ret' = [ret EXCEPT ![c] =
                  Result("validate_parameters", parameters,
                         IF ParametersAccepted(parameters, default_params)
                         THEN Returned(<<>>) ELSE Raised)]
    /\ UNCHANGED <<file, sys_modules, pc, call, ctor, workload, saved, layout>>

\* validate_parameters (lines 181-215).
validate_parameters(c, parameters, default_params) ==
    /\ Idle(c)
    /\ inst' = IF ParametersAccepted(parameters, default_params)
               THEN [inst EXCEPT ![c].parameters =
                        StoreParameters(@, parameters, default_params)]
               ELSE inst
    /\ ret' = [ret EXCEPT ![c] =
                  Result("validate_parameters", parameters,
                         IF ParametersAccepted(parameters, default_params)
                         THEN Returned(<<>>) ELSE Raised)]
    /\ UNCHANGED <<file, sys_modules, pc, call, ctor, workload, saved, layout>>

\* The attributes of an instance that hold functions defined inside another
\* function: __init__ stores grad(self.__evaluate) and
\* hessian(self.__evaluate) in every instance (lines 178-179), and autograd
\* builds both as closures.
LocalFunctionAttributes(o) == {"first_derivative", "second_derivative"}

\* pickle.dump(self, file), line 666: the bytes written to the file, as the
\* sequence of complete objects they hold.  pickle stores a function as a
\* reference to a module-level name and raises on one that has none; what
\* it writes otherwise is the instance's attribute dictionary.
pickle_dump(o) ==
    IF LocalFunctionAttributes(o) # {} THEN Raised ELSE Returned(<<o>>)

\* pickle.load(f), line 681, on the contents of a file: a file holding no
\* complete object raises EOFError.
pickle_load(contents) ==
    IF contents = <<>> THEN Raised ELSE Returned(<<contents[1]>>)

\* open(path, "rb") followed by pickle.load (lines 680-683); a missing file
\* raises FileNotFoundError.
LoadValue(f) == IF f = <<>> THEN Raised ELSE pickle_load(f[1])

\* save (lines 658-667): open(path, "wb") creates or empties the file, then
\* the instance is pickled into it.
save(c) ==
    /\ Idle(c)
    /\ saved' = IF pickle_dump(inst[c]).raised
                THEN << <<>> >>
                ELSE <<pickle_dump(inst[c]).val>>
    /\ ret' = [ret EXCEPT ![c] =
                  Result("save", <<>>,
                         IF pickle_dump(inst[c]).raised
                         THEN Raised ELSE Returned(<<>>))]
    /\ UNCHANGED <<inst, file, sys_modules, pc, call, ctor, workload, layout>>

\* load (lines 669-683).
load(c) ==
    /\ Idle(c)
    /\ ret' = [ret EXCEPT ![c] = Result("load", <<>>, LoadValue(saved))]
    /\ UNCHANGED <<inst, file, sys_modules, pc, call, ctor, workload, saved, layout>>

\* Positions handed to check_constraints: one inside the bounds, one
\* outside, and the types search_space_bounds can have, which the subclass
\* constructor chooses.
ConstraintInputs == {<<1, 1>>, <<6, 0>>}
BoundsTypes == {"list", "ndarray"}

\* bool(self.search_space_bounds) is defined for a list, and for an array
\* of at most one element; for a larger array numpy raises ValueError.
TruthDefined(bounds, bounds_type) ==
    bounds_type = "list" \/ 2 * Len(bounds) <= 1

\* self.search_space_bounds[:, 0] is defined for an array; a list raises
\* TypeError.
ColumnsDefined(bounds_type) == bounds_type = "ndarray"

\* The returned expression (lines 619-622): some coordinate lies below its
\* low bound or above its high bound.
OutsideBounds(bounds, position) ==
    \E d \in 1..Len(position) :
        position[d] < bounds[d][1] \/ position[d] > bounds[d][2]

\* check_constraints (lines 598-622).
check_constraints(c, position, bounds_type) ==
    /\ Idle(c)
    /\ ret' = [ret EXCEPT ![c] =
          Result("check_constraints", <<position>>,
                 IF ~TruthDefined(inst[c].search_space_bounds, bounds_type)
                 THEN Raised
                 ELSE IF inst[c].search_space_bounds = <<>>
                 THEN Raised
                 ELSE IF ~ColumnsDefined(bounds_type)
                 THEN Raised
                 ELSE Returned(<<OutsideBounds(inst[c].search_space_bounds,
                                               position)>>))]
    /\ UNCHANGED <<inst, file, sys_modules, pc, call, ctor, workload, saved, layout>>

\* What the instance's public single-call interface returns for a position:
\* __call__ returns self.evaluate(position) (line 847).
CallValue(o, position) == Returned(evaluate(position))

\* __call__ (lines 837-847).
call_instance(c, position) ==
    /\ Idle(c)
    /\ ret' = [ret EXCEPT ![c] =
                  Result("call", position, CallValue(inst[c], position))]
    /\ UNCHANGED <<inst, file, sys_modules, pc, call, ctor, workload, saved, layout>>

\* position - self.shift (line 265), row by row.
UnshiftOK(position, shift) ==
    \A k \in 1..Len(position) : Broadcastable(position[k], shift)

Unshift(position, shift) ==
    [k \in 1..Len(position) |-> VecSub(position[k], shift)]

\* The value of the wrapped evaluator (lines 264-268); z holds one randn
\* sample per row.
WrappedValue(o, position, z) ==
    IF ~UnshiftOK(position, o.shift)
    THEN Raised
    ELSE LET f == evaluate(Unshift(position, o.shift))
         IN Returned([k \in 1..Len(position) |->
                         f[k] + o.noise_mean + z[k] * o.noise_variance])

\* The counter after one pass through the count_calls wrapper (line 108).
count_calls(n) == n + 1

\* __evaluate under @count_calls (lines 105-111, 253-268): the counter is
\* incremented before the body runs, so also when the body raises.
private_evaluate(c, position, z) ==
    /\ Idle(c)
    /\ inst[c].nb_calls < MaxCalls
    /\ inst' = [inst EXCEPT ![c].nb_calls = count_calls(@)]
    /\ ret' = [ret EXCEPT ![c] =
                  Result("__evaluate", position,
                         WrappedValue(inst[c], position, z))]
    /\ UNCHANGED <<file, sys_modules, pc, call, ctor, workload, saved, layout>>

(******************** the decoupled evaluator *******************************)
\* The text of the decoupled function is a sequence of one-character
\* strings.  The import lines and the def line, which are the same in every
\* text the program writes, are left out: a text starts after the def line.
Digits == <<"0", "1", "2", "3", "4", "5", "6", "7", "8", "9">>

IsDigit(ch) == \E d \in 1..10 : Digits[d] = ch

DigitValue(ch) == (CHOOSE d \in 1..10 : Digits[d] = ch) - 1

Letters ==
    {"a", "b", "c", "d", "e", "f", "g", "h", "i", "j", "k", "l", "m", "n",
     "o", "p", "q", "r", "s", "t", "u", "v", "w", "x", "y", "z", "_"}

IsLetter(ch) == ch \in Letters

Indent ==
    <<" ", " ", " ", " ">>

ShiftHead ==
    <<"p", "o", "s", "i", "t", "i", "o", "n", " ", "+", "=", " ">>

ArrayHead ==
    <<"n", "p", ".", "a", "r", "r", "a", "y", "(">>

ReturnHead ==
    <<"r", "e", "t", "u", "r", "n", " ">>

\* The expression the sphere function returns, as its source spells it.
Formula ==
    <<"n", "p", ".", "s", "u", "m", "(", "p", "o", "s", "i", "t", "i", "o",
      "n", "*", "*", "2", ",", " ", "a", "x", "i", "s", "=", "-", "1", ")">>

RandnPath ==
    << <<"n", "p">>, <<"r", "a", "n", "d", "o", "m">>,
       <<"r", "a", "n", "d", "n">> >>

RandnCall ==
    RandnPath[1] \o <<".">> \o RandnPath[2] \o <<".">> \o RandnPath[3]
    \o <<"(", ")">>

RECURSIVE NatStr(_)
NatStr(n) ==
    IF n < 10 THEN <<Digits[n + 1]>>
    ELSE NatStr(n \div 10) \o <<Digits[(n % 10) + 1]>>

IntStr(v) == IF v < 0 THEN <<"-">> \o NatStr(-v) ELSE NatStr(v)

\* str of a Python float with an integral value: "1.0", "-1.0".
FloatStr(v) == IntStr(v) \o <<".", "0">>

\* An element of a printed numpy float array: "1.", "-1.".
ElementStr(v) == IntStr(v) \o <<".">>

ElementWidth(shift) ==
    CHOOSE w \in {Len(ElementStr(shift[i])) : i \in 1..Len(shift)} :
        \A i \in 1..Len(shift) : Len(ElementStr(shift[i])) <= w

\* str(np.array(shift)).replace(" ", ",") (line 737): numpy prints every
\* element right-justified to the width of the widest and one blank between
\* two elements; every blank becomes a comma.
RECURSIVE ArrayElements(_, _, _)
ArrayElements(shift, i, w) ==
    IF i > Len(shift) THEN <<>>
    ELSE (IF i > 1 THEN <<",">> ELSE <<>>)
         \o [k \in 1..(w - Len(ElementStr(shift[i]))) |-> ","]
         \o ElementStr(shift[i])
         \o ArrayElements(shift, i + 1, w)

shift_str(shift) ==
    ArrayHead \o <<"[">> \o ArrayElements(shift, 1, ElementWidth(shift))
    \o <<"]", ")">>

\* The line inserted after the def line (line 740).
ShiftLine(shift) == Indent \o ShiftHead \o shift_str(shift) \o <<"\n">>

\* The return line of the formula's source, and what line 759 appends.
ReturnLine == Indent \o ReturnHead \o Formula

NoiseSuffix(noise_mean, noise_variance) ==
    <<" ", "+", " ">> \o FloatStr(noise_mean) \o <<" ", "+", " ">>
    \o RandnCall \o <<" ", "*", " ">> \o FloatStr(noise_variance)

\* __decouple_shift_noise (lines 731-765) applied to the formula's source.
decouple_shift_noise(o) ==
    (IF any(o.shift) THEN ShiftLine(o.shift) ELSE <<>>)
    \o ReturnLine
    \o (IF o.noise_mean # 0 \/ o.noise_variance # 0
        THEN NoiseSuffix(o.noise_mean, o.noise_variance)
        ELSE <<>>)

(************ what Python makes of a text when it is imported ***************)
StartsWith(s, p) == Len(s) >= Len(p) /\ SubSeq(s, 1, Len(p)) = p

From(s, i) == IF i > Len(s) THEN <<>> ELSE SubSeq(s, i, Len(s))

\* The pieces of s between the occurrences of sep.
RECURSIVE Split(_, _)
Split(s, sep) ==
    IF \A i \in 1..Len(s) : s[i] # sep THEN <<s>>
    ELSE LET i == CHOOSE j \in 1..Len(s) :
                      s[j] = sep /\ \A k \in 1..(j - 1) : s[k] # sep
         IN <<SubSeq(s, 1, i - 1)>> \o Split(From(s, i + 1), sep)

\* The index after the run of digits (of name characters) that starts at i.
EndOfDigits(s, i) ==
    CHOOSE j \in i..(Len(s) + 1) :
        /\ \A k \in i..(j - 1) : IsDigit(s[k])
        /\ j <= Len(s) => ~IsDigit(s[j])

EndOfName(s, i) ==
    CHOOSE j \in i..(Len(s) + 1) :
        /\ \A k \in i..(j - 1) : IsLetter(s[k]) \/ IsDigit(s[k])
        /\ j <= Len(s) => ~(IsLetter(s[j]) \/ IsDigit(s[j]))

RECURSIVE DigitsValue(_, _, _)
DigitsValue(s, i, j) ==
    IF j <= i THEN 0
    ELSE 10 * DigitsValue(s, i, j - 1) + DigitValue(s[j - 1])

Token(t, v, s) == [t |-> t, v |-> v, s |-> s]

\* The tokens of what follows the formula on a return line: numbers (every
\* number the rewriting prints has a zero fraction, so a number is worth its
\* integer part), names, attribute references, the operators + - *, and
\* calls without arguments.  Anything else is not part of an expression the
\* texts can form.
RECURSIVE Tokens(_, _)
Tokens(s, i) ==
    IF i > Len(s) THEN <<>>
    ELSE
    LET ch == s[i]
        next == IF i < Len(s) THEN s[i + 1] ELSE ""
    IN IF ch = " " THEN Tokens(s, i + 1)
       ELSE IF IsDigit(ch) \/ (ch = "." /\ IsDigit(next))
       THEN LET j == EndOfDigits(s, i)
                k == IF j <= Len(s) /\ s[j] = "."
                     THEN EndOfDigits(s, j + 1) ELSE j
            IN IF k <= Len(s) /\ IsLetter(s[k])
               THEN <<Token("bad", 0, <<>>)>>
               ELSE <<Token("num", DigitsValue(s, i, j), <<>>)>>
                    \o Tokens(s, k)
       ELSE IF IsLetter(ch)
       THEN LET j == EndOfName(s, i)
            IN <<Token("name", 0, SubSeq(s, i, j - 1))>> \o Tokens(s, j)
       ELSE IF ch = "." /\ IsLetter(next)
       THEN LET j == EndOfName(s, i + 1)
            IN <<Token("attr", 0, SubSeq(s, i + 1, j - 1))>> \o Tokens(s, j)
       ELSE IF ch \in {"+", "-"} \/ (ch = "*" /\ next # "*")
       THEN <<Token("op", 0, <<ch>>)>> \o Tokens(s, i + 1)
       ELSE IF ch = "(" /\ next = ")"
       THEN <<Token("call", 0, <<>>)>> \o Tokens(s, i + 2)
       ELSE <<Token("bad", 0, <<>>)>>

\* A term of the returned sum: coef, times the formula's value when f,
\* times rand samples of np.random.randn().
NewTerm(f) == [coef |-> 1, f |-> f, rand |-> 0]

\* The parser's state right after the formula: it has read a value.
AfterFormula ==
    [valid |-> TRUE,
     terms |-> <<>>,        \* the terms that are complete
     cur |-> NewTerm(TRUE), \* the term being read
     mode |-> "primary",    \* just read a value, or "operand": expects one
     name |-> FALSE,        \* what was just read is a dotted name
     path |-> <<>>,         \* that name
     sign |-> 1,            \* the signs read in front of the operand
     raises |-> FALSE]      \* evaluating the expression raises

\* One token: a binary operator, a trailer (attribute or call) or a syntax
\* error after a value; a sign, a number or a name where an operand is
\* expected.  Only np.random.randn can be called; the attributes a text can
\* name (random, randn) exist on no value, and a name left uncalled is a
\* module or a function, which the arithmetic refuses.
ParseStep(st, tok) ==
    IF tok.t = "bad" THEN [st EXCEPT !.valid = FALSE]
    ELSE IF st.mode = "primary"
    THEN IF tok.t = "op"
         THEN LET r == [st EXCEPT !.raises = @ \/ st.name,
                                  !.name = FALSE,
                                  !.mode = "operand"]
              IN IF tok.s = <<"*">>
                 THEN [r EXCEPT !.sign = 1]
                 ELSE [r EXCEPT !.terms = Append(@, st.cur),
                                !.cur = NewTerm(FALSE),
                                !.sign = IF tok.s = <<"+">> THEN 1 ELSE -1]
         ELSE IF tok.t = "attr"
         THEN IF st.name THEN [st EXCEPT !.path = Append(@, tok.s)]
              ELSE [st EXCEPT !.raises = TRUE]
         ELSE IF tok.t = "call"
         THEN IF st.name /\ st.path = RandnPath
              THEN [st EXCEPT !.cur.rand = @ + 1, !.name = FALSE]
              ELSE [st EXCEPT !.raises = TRUE, !.name = FALSE]
         ELSE [st EXCEPT !.valid = FALSE]
    ELSE IF tok.t = "op"
         THEN IF tok.s = <<"*">> THEN [st EXCEPT !.valid = FALSE]
              ELSE IF tok.s = <<"-">> THEN [st EXCEPT !.sign = -@]
              ELSE st
         ELSE IF tok.t = "num"
         THEN [st EXCEPT !.cur.coef = @ * st.sign * tok.v,
                         !.mode = "primary",
                         !.name = FALSE]
         ELSE IF tok.t = "name"
         THEN [st EXCEPT !.cur.coef = @ * st.sign,
                         !.path = <<tok.s>>,
                         !.mode = "primary",
                         !.name = TRUE]
         ELSE [st EXCEPT !.valid = FALSE]

RECURSIVE Parsed(_, _, _)
Parsed(toks, i, st) ==
    IF i > Len(toks) \/ ~st.valid THEN st
    ELSE Parsed(toks, i + 1, ParseStep(st, toks[i]))

NoStatement == [kind |-> "bad", shift |-> <<>>, terms |-> <<>>, raises |-> FALSE]

\* The return statement "return <formula><rest>".
ReturnStatement(rest) ==
    LET st == Parsed(Tokens(rest, 1), 1, AfterFormula)
    IN IF ~st.valid \/ st.mode # "primary" THEN NoStatement
       ELSE [NoStatement EXCEPT !.kind = "return",
                                !.terms = Append(st.terms, st.cur),
                                !.raises = st.raises \/ st.name]

\* An element of the list literal: an optional sign, digits, a point, digits.
ElementOK(el) ==
    LET body == IF el # <<>> /\ el[1] = "-" THEN Tail(el) ELSE el
        j == EndOfDigits(body, 1)
    IN /\ j > 1
       /\ j <= Len(body)
       /\ body[j] = "."
       /\ EndOfDigits(body, j + 1) = Len(body) + 1

ElementValue(el) ==
    IF el[1] = "-" THEN -DigitsValue(Tail(el), 1, EndOfDigits(Tail(el), 1))
    ELSE DigitsValue(el, 1, EndOfDigits(el, 1))

\* The statement "position += np.array(<list>)".
ShiftStatementOf(arg) ==
    LET n == Len(arg)
        els == Split(SubSeq(arg, 2, n - 2), ",")
    IN IF /\ n >= 3
          /\ arg[1] = "["
          /\ arg[n - 1] = "]"
          /\ arg[n] = ")"
          /\ \A i \in 1..Len(els) : ElementOK(els[i])
       THEN [NoStatement EXCEPT
                !.kind = "shift",
                !.shift = [i \in 1..Len(els) |-> ElementValue(els[i])]]
       ELSE NoStatement

\* One line of the function's body.
Statement(line) ==
    IF \A i \in 1..Len(line) : line[i] = " "
    THEN [NoStatement EXCEPT !.kind = "blank"]
    ELSE IF StartsWith(line, Indent \o ShiftHead \o ArrayHead)
    THEN ShiftStatementOf(From(line, Len(Indent \o ShiftHead \o ArrayHead) + 1))
    ELSE IF StartsWith(line, ReturnLine)
    THEN ReturnStatement(From(line, Len(ReturnLine) + 1))
    ELSE NoStatement

NotPython == [valid |-> FALSE, shifts |-> <<>>, terms |-> <<>>, raises |-> FALSE]

\* The function a text defines: the shift statements it runs before its
\* first return statement, and the sum that statement returns.  A text with
\* a line that is no statement cannot be imported.
Compile(text) ==
    LET lines == Split(text, "\n")
        stmts == [i \in 1..Len(lines) |-> Statement(lines[i])]
        returns == {i \in 1..Len(stmts) : stmts[i].kind = "return"}
    IN IF (\E i \in 1..Len(stmts) : stmts[i].kind = "bad") \/ returns = {}
       THEN NotPython
       ELSE LET r == CHOOSE i \in returns : \A j \in returns : i <= j
                IsShift(s) == s.kind = "shift"
                before == SelectSeq(SubSeq(stmts, 1, r - 1), IsShift)
            IN [valid |-> TRUE,
                shifts |-> [i \in 1..Len(before) |-> before[i].shift],
                terms |-> stmts[r].terms,
                raises |-> stmts[r].raises]

\* The statement the rewriting inserts after the def line (line 740):
\* "position += <shift>".
ShiftStatementOK(position, shift) ==
    \A k \in 1..Len(position) : InplaceOK(position[k], shift)

ShiftStatement(position, shift) ==
    [k \in 1..Len(position) |-> VecIAdd(position[k], shift)]

\* The position after the shift statements, <<>> when one of them raises.
RECURSIVE RunShifts(_, _)
RunShifts(shifts, position) ==
    IF shifts = <<>> THEN <<position>>
    ELSE IF ~ShiftStatementOK(position, Head(shifts)) THEN <<>>
    ELSE RunShifts(Tail(shifts), ShiftStatement(position, Head(shifts)))

RECURSIVE Product(_)
Product(z) == IF z = <<>> THEN 1 ELSE Head(z) * Product(Tail(z))

\* The returned sum for one row with formula value f; the calls of
\* np.random.randn() take the samples of z from left to right.
RECURSIVE TermsValue(_, _, _)
TermsValue(terms, z, f) ==
    IF terms = <<>> THEN 0
    ELSE LET t == Head(terms)
         IN t.coef * (IF t.f THEN f ELSE 1) * Product(SubSeq(z, 1, t.rand))
            + TermsValue(Tail(terms), From(z, t.rand + 1), f)

RECURSIVE NbRandn(_)
NbRandn(terms) ==
    IF terms = <<>> THEN 0 ELSE Head(terms).rand + NbRandn(Tail(terms))

\* Running the decoupled function on a position; z holds the samples its
\* calls of np.random.randn() return.
RunDecoupled(fn, position, z) ==
    LET moved == RunShifts(fn.shifts, position)
    IN IF moved = <<>> \/ fn.raises THEN Raised
       ELSE LET f == evaluate(moved[1])
            IN Returned([k \in 1..Len(f) |-> TermsValue(fn.terms, z, f[k])])

SamplesFor(fn) == [1..NbRandn(fn.terms) -> Samples]

\* The samples of a run whose calls of np.random.randn() all return 0.
ZeroSamples(fn) == [j \in 1..NbRandn(fn.terms) |-> 0]

(************************* parallel_evaluate ********************************)
NaN == <<>>
Num(v) == <<v>>

Pending == [st |-> "pending", out |-> Returned(<<>>)]
Done(out) == [st |-> "done", out |-> out]

NoCall ==
    [positions |-> <<>>,   \* the positions argument
     snapshot |-> <<>>,    \* the text this call generated, <<>> before it did
     wrote |-> FALSE,      \* this call created or emptied the staging file
     linked |-> FALSE,     \* its open handle leads to the file at the path
     evaluator |-> <<>>,   \* the local decoupled_evaluate, <<>> while unbound
     futures |-> <<>>,     \* future_to_index, by index
     order |-> <<>>,       \* the indices as_completed has yielded, in order
     results |-> <<>>,     \* the results array
     pool |-> "none",      \* the executor: none, open, shutdown
     exc |-> "none"]       \* the exception the call is handling or raising

Exited == {"returned", "fatal", "raised"}

\* What the staging file holds after a writer's buffered text (the import
\* lines and the def line, the same for every writer, then the rest of its
\* text) is flushed from offset 0 over what the file held: the writer's
\* text, followed by what a longer old text has beyond the writer's length.
\* old is <<>> for a file without the function (empty, or import lines
\* only).
Overwritten(old, text) ==
    IF old = <<>> THEN <<text>>
    ELSE <<text \o From(old[1], Len(text) + 1)>>

\* os.remove (line 835) takes the name away from the file; the handle of a
\* call that is still writing it no longer leads to the file at the path.
Unlinked(calls) == [d \in Threads |-> [calls[d] EXCEPT !.linked = FALSE]]

\* __decouple_evaluate up to line 809: the text is generated and
\* open(DECOUPLED_FUNCTION_PATH, "w") creates the staging file, or empties
\* the one that is there.
decouple_evaluate_open(c, ps) ==
    /\ Idle(c)
    /\ LET text == decouple_shift_noise(inst[c])
       IN /\ file' = <<[code |-> <<>>, owner |-> c]>>
          /\ call' = [call EXCEPT ![c] =
                         [NoCall EXCEPT !.positions = ps,
                                        !.snapshot = <<text>>,
                                        !.wrote = TRUE,
                                        !.linked = TRUE]]
    /\ pc' = [pc EXCEPT ![c] = "write"]
    /\ UNCHANGED <<inst, sys_modules, ret, ctor, workload, saved, layout>>

\* Lines 811-821: the import lines and the code are written; they reach
\* the file when the with block closes it.
decouple_evaluate_close(c) ==
    /\ pc[c] = "write"
    /\ IF call[c].linked
       THEN file' = <<[code |-> Overwritten(file[1].code, call[c].snapshot[1]),
                       owner |-> c]>>
       ELSE UNCHANGED file
    /\ call' = [call EXCEPT ![c].linked = FALSE]
    /\ pc' = [pc EXCEPT ![c] = "exists"]
    /\ UNCHANGED <<inst, sys_modules, ret, ctor, workload, saved, layout>>

\* __decouple_evaluate raises before it opens the staging file (the source
\* of evaluate cannot be read or rewritten, the directory is missing).
decouple_evaluate_raises(c, ps) ==
    /\ Idle(c)
    /\ call' = [call EXCEPT ![c] = [NoCall EXCEPT !.positions = ps,
                                                  !.exc = "DecoupleError"]]
    /\ pc' = [pc EXCEPT ![c] = "except"]
    /\ UNCHANGED <<inst, file, sys_modules, ret, ctor, workload, saved, layout>>

\* __decouple_evaluate raises inside the with block (lines 811-821), before
\* the code is written: closing flushes at most the import lines, which
\* leave a file as it is or without the function.
decouple_evaluate_write_raises(c) ==
    /\ pc[c] = "write"
    /\ call' = [call EXCEPT ![c].linked = FALSE,
                            ![c].exc = "DecoupleError"]
    /\ pc' = [pc EXCEPT ![c] = "except"]
    /\ UNCHANGED <<inst, file, sys_modules, ret, ctor, workload, saved, layout>>

\* Line 330: if os.path.exists(DECOUPLED_FUNCTION_PATH).
check_exists(c) ==
    /\ pc[c] = "exists"
    /\ pc' = [pc EXCEPT ![c] = IF file # <<>> THEN "import" ELSE "pool"]
    /\ UNCHANGED <<inst, file, sys_modules, call, ret, ctor, workload, saved, layout>>

\* The file the import system finds for MDAF_benchmarks.tmp.decoupled_evaluate:
\* the staging file when the package directory is the staging directory,
\* none otherwise (nothing in the program writes into another directory).
ImportedFile == IF layout = "same" THEN file ELSE <<>>

\* A module of the module table: its attribute evaluate, <<>> when the
\* module defines no such name.
Module(fn) == [evaluate |-> fn]

\* Lines 331-338: from MDAF_benchmarks.tmp.decoupled_evaluate import
\* evaluate.  A module already in the module table is not loaded again: the
\* name is taken from it, and the import fails when the module lacks it.
\* Otherwise the file is loaded: a missing file and a file that is not
\* valid Python fail and leave the table as it is; a file without the
\* function runs, stays in the table, and the import of the name fails.
\* The function of a loaded module is what Python compiled the text into.
import_decoupled(c) ==
    /\ pc[c] = "import"
    /\ IF sys_modules # <<>>
       THEN IF sys_modules[1].evaluate # <<>>
            THEN /\ call' = [call EXCEPT
                                ![c].evaluator = sys_modules[1].evaluate]
                 /\ pc' = [pc EXCEPT ![c] = "pool"]
                 /\ UNCHANGED sys_modules
            ELSE /\ call' = [call EXCEPT ![c].exc = "ImportError"]
                 /\ pc' = [pc EXCEPT ![c] = "except"]
                 /\ UNCHANGED sys_modules
       ELSE IF ImportedFile = <<>>
       THEN /\ call' = [call EXCEPT ![c].exc = "ImportError"]
            /\ pc' = [pc EXCEPT ![c] = "except"]
            /\ UNCHANGED sys_modules
       ELSE IF ImportedFile[1].code = <<>>
       THEN /\ sys_modules' = <<Module(<<>>)>>
            /\ call' = [call EXCEPT ![c].exc = "ImportError"]
            /\ pc' = [pc EXCEPT ![c] = "except"]
       ELSE IF ~Compile(ImportedFile[1].code[1]).valid
       THEN /\ call' = [call EXCEPT ![c].exc = "ImportError"]
            /\ pc' = [pc EXCEPT ![c] = "except"]
            /\ UNCHANGED sys_modules
       ELSE LET fn == Compile(ImportedFile[1].code[1])
            IN /\ sys_modules' = <<Module(<<fn>>)>>
               /\ call' = [call EXCEPT ![c].evaluator = <<fn>>]
               /\ pc' = [pc EXCEPT ![c] = "pool"]
    /\ UNCHANGED <<inst, file, ret, ctor, workload, saved, layout>>

\* except_check of a handler that re-raises without deleting the file.
except_check_no_delete(c) ==
    /\ pc[c] = "except"
    /\ pc' = [pc EXCEPT ![c] = "fatal"]
    /\ UNCHANGED <<inst, file, sys_modules, call, ret, ctor, workload, saved, layout>>

\* Lines 340-343 and 834: the handler's os.path.exists test.
except_check(c) ==
    /\ pc[c] = "except"
    /\ IF file # <<>>
       THEN /\ pc' = [pc EXCEPT ![c] = "except_remove"]
            /\ UNCHANGED call
       ELSE /\ pc' = [pc EXCEPT ![c] = "fatal"]
            /\ UNCHANGED call
    /\ UNCHANGED <<inst, file, sys_modules, ret, ctor, workload, saved, layout>>

\* Lines 835 and 345: os.remove, then the raise of the Exception that wraps
\* the failure kept in exc.  os.remove itself raises when the file went
\* away after the test.
except_remove(c) ==
    /\ pc[c] = "except_remove"
    /\ file' = <<>>
    /\ call' = Unlinked([call EXCEPT ![c].exc =
                            IF file # <<>> THEN @ ELSE "FileNotFoundError"])
    /\ pc' = [pc EXCEPT ![c] = "fatal"]
    /\ UNCHANGED <<inst, sys_modules, ret, ctor, workload, saved, layout>>

\* The max_workers argument: None, or a number.
MaxWorkersInputs == {<<>>, <<0>>, <<1>>}

\* ProcessPoolExecutor(max_workers=...) refuses a number below one with
\* ValueError; None is replaced by the machine's processor count.
ExecutorAccepts(max_workers) ==
    IF max_workers = <<>> THEN TRUE ELSE max_workers[1] > 0

\* Lines 349-358: the executor is created, every position is submitted and
\* the results array is pre-filled.  An executor that cannot be created
\* raises out of the call.  Evaluating the unbound local decoupled_evaluate
\* for the first submit raises, and the with block shuts the still empty
\* pool down.
submit_all(c, max_workers) ==
    /\ pc[c] = "pool"
    /\ LET n == Len(call[c].positions)
       IN IF ~ExecutorAccepts(max_workers)
          THEN /\ call' = [call EXCEPT ![c].exc = "ValueError"]
               /\ pc' = [pc EXCEPT ![c] = "raised"]
          ELSE IF n > 0 /\ call[c].evaluator = <<>>
          THEN /\ call' = [call EXCEPT ![c].pool = "shutdown",
                                       ![c].exc = "UnboundLocalError"]
               /\ pc' = [pc EXCEPT ![c] = "raised"]
          ELSE /\ call' = [call EXCEPT
                              ![c].pool = "open",
                              ![c].futures = [i \in 1..n |-> Pending],
                              ![c].results = [i \in 1..n |-> NaN]]
               /\ pc' = [pc EXCEPT ![c] = "collect"]
    /\ UNCHANGED <<inst, file, sys_modules, ret, ctor, workload, saved, layout>>

\* The samples the function a call submitted can draw in one run.
WorkerSamples(c) ==
    IF call[c].evaluator = <<>> THEN {} ELSE SamplesFor(call[c].evaluator[1])

\* A worker process runs one submitted task to its end.  The worker looks
\* the submitted function up by name in the module table it inherited from
\* the submitting process (the fork start method), which holds the module
\* the import statement returned.
worker_runs(c, i, z) ==
    /\ i \in 1..Len(call[c].futures)
    /\ call[c].futures[i].st = "pending"
    /\ z \in WorkerSamples(c)
    /\ call' = [call EXCEPT ![c].futures[i] =
                   Done(RunDecoupled(call[c].evaluator[1],
                                     call[c].positions[i], z))]
    /\ UNCHANGED <<inst, file, sys_modules, pc, ret, ctor, workload, saved, layout>>

\* results[index] = result (line 370) succeeds for a size-one array.
Assignable(out) == Len(out.val) = 1

\* collect writing each result at the position of its completion instead of
\* the index its future was submitted for.
collect_by_completion_order(c, i) ==
    /\ pc[c] = "collect"
    /\ i \in 1..Len(call[c].futures)
    /\ i \notin Range(call[c].order)
    /\ call[c].futures[i].st = "done"
    /\ LET out == call[c].futures[i].out
           k == Len(call[c].order) + 1
       IN IF out.raised
          THEN /\ call' = [call EXCEPT ![c].order = Append(@, i)]
               /\ UNCHANGED pc
          ELSE IF Assignable(out)
          THEN /\ call' = [call EXCEPT ![c].order = Append(@, i),
                                       ![c].results[k] = Num(out.val[1])]
               /\ UNCHANGED pc
          ELSE /\ call' = [call EXCEPT ![c].order = Append(@, i),
                                       ![c].exc = "ValueError"]
               /\ pc' = [pc EXCEPT ![c] = "unwind"]
    /\ UNCHANGED <<inst, file, sys_modules, ret, ctor, workload, saved, layout>>

\* Lines 361-370: one iteration of the as_completed loop, for a finished
\* future not yet yielded.
collect(c, i) ==
    /\ pc[c] = "collect"
    /\ i \in 1..Len(call[c].futures)
    /\ i \notin Range(call[c].order)
    /\ call[c].futures[i].st = "done"
    /\ LET out == call[c].futures[i].out
       IN IF out.raised
          THEN /\ call' = [call EXCEPT ![c].order = Append(@, i)]
               /\ UNCHANGED pc
          ELSE IF Assignable(out)
          THEN /\ call' = [call EXCEPT ![c].order = Append(@, i),
                                       ![c].results[i] = Num(out.val[1])]
               /\ UNCHANGED pc
          ELSE /\ call' = [call EXCEPT ![c].order = Append(@, i),
                                       ![c].exc = "ValueError"]
               /\ pc' = [pc EXCEPT ![c] = "unwind"]
    /\ UNCHANGED <<inst, file, sys_modules, ret, ctor, workload, saved, layout>>

\* as_completed has yielded every future.
Exhausted(c) == Range(call[c].order) = 1..Len(call[c].futures)

\* shutdown(wait=True) returns once no task is pending or running.
Joined(c) == \A i \in 1..Len(call[c].futures) : call[c].futures[i].st = "done"

\* pool_exit leaving the loop after the first yielded future and shutting
\* the pool down without waiting.
pool_exit_early(c) ==
    /\ pc[c] = "collect"
    /\ call[c].order # <<>>
    /\ call' = [call EXCEPT ![c].pool = "shutdown"]
    /\ pc' = [pc EXCEPT ![c] = "delete"]
    /\ UNCHANGED <<inst, file, sys_modules, ret, ctor, workload, saved, layout>>

\* The loop ends and the with block exits normally (line 349's __exit__).
pool_exit(c) ==
    /\ pc[c] = "collect"
    /\ Exhausted(c)
    /\ Joined(c)
    /\ call' = [call EXCEPT ![c].pool = "shutdown"]
    /\ pc' = [pc EXCEPT ![c] = "delete"]
    /\ UNCHANGED <<inst, file, sys_modules, ret, ctor, workload, saved, layout>>

\* The with block exits with the exception of line 370 in flight: the pool
\* is joined and the exception goes on to the caller.
pool_exit_raising(c) ==
    /\ pc[c] = "unwind"
    /\ Joined(c)
    /\ call' = [call EXCEPT ![c].pool = "shutdown"]
    /\ pc' = [pc EXCEPT ![c] = "raised"]
    /\ UNCHANGED <<inst, file, sys_modules, ret, ctor, workload, saved, layout>>

\* Lines 373 and 834: the os.path.exists test of the final delete.
delete_check(c) ==
    /\ pc[c] = "delete"
    /\ pc' = [pc EXCEPT ![c] = IF file # <<>> THEN "delete_remove" ELSE "returned"]
    /\ UNCHANGED <<inst, file, sys_modules, call, ret, ctor, workload, saved, layout>>

\* Lines 835 and 375: os.remove, then return results.
delete_remove(c) ==
    /\ pc[c] = "delete_remove"
    /\ file' = <<>>
    /\ IF file # <<>>
       THEN /\ pc' = [pc EXCEPT ![c] = "returned"]
            /\ call' = Unlinked(call)
       ELSE /\ pc' = [pc EXCEPT ![c] = "raised"]
            /\ call' = [call EXCEPT ![c].exc = "FileNotFoundError"]
    /\ UNCHANGED <<inst, sys_modules, ret, ctor, workload, saved, layout>>

\* The caller has the result or the exception; the call's frame is gone.
call_over(c) ==
    /\ pc[c] \in Exited
    /\ pc' = [pc EXCEPT ![c] = "idle"]
    /\ call' = [call EXCEPT ![c] = NoCall]
    /\ UNCHANGED <<inst, file, sys_modules, ret, ctor, workload, saved, layout>>

(************************ construction attempts *****************************)
BoundsOfLen(n) == [i \in 1..n |-> <<-5, 5>>]

NoCtor == [state |-> "none", ndim |-> 0, bounds |-> <<>>, opt |-> NoOptimum,
           obj |-> <<>>]

\* The optimum attributes a subclass constructor may set: absent, one
\* point, or a rectangular array of two points.
OptimumInputs ==
    {NoOptimum}
    \cup {OnePoint(v) : v \in UNION {Vecs({0, 1}, n) : n \in 1..(MaxDim + 1)}}
    \cup {ManyPoints(<<v, w>>) :
            <<v, w>> \in UNION {Vecs({0, 1}, n) \X Vecs({0, 1}, n) : n \in 1..MaxDim}}

\* A subclass constructor wrapped by @constructor (lines 128-137) followed
\* by ObjectiveFunction.__init__ (lines 144-179).
construct(ndim, bounds, opt) ==
    /\ ctor.state = "none"
    /\ ctor' = IF InitAccepts(ndim, bounds, opt)
               THEN [state |-> "built", ndim |-> ndim, bounds |-> bounds,
                     opt |-> opt, obj |-> <<NewInstance(ndim, bounds, opt)>>]
               ELSE [state |-> "rejected", ndim |-> ndim, bounds |-> bounds,
                     opt |-> opt, obj |-> <<>>]
    /\ UNCHANGED <<inst, file, sys_modules, pc, call, ret, workload, saved, layout>>

\* The attempt's outcome is dropped; the next construction starts afresh.
discard ==
    /\ ctor.state # "none"
    /\ ctor' = NoCtor
    /\ UNCHANGED <<inst, file, sys_modules, pc, call, ret, workload, saved, layout>>

(*************************** specifications *********************************)
NoiseInputs == {<<0, 0>>, <<1, 0>>, <<0, 1>>, <<0, -1>>}

\* The checked instances: the two-dimensional sphere function, without and
\* with a declared optimum.
Sphere == NewInstance(2, BoundsOfLen(2), NoOptimum)
SphereWithOptimum == NewInstance(2, BoundsOfLen(2), OnePoint(<<0, 0>>))

\* The keyword arguments a wrapped constructor is called with: none, or a
\* parameters mapping.
KwargsInputs == {<<>>} \cup {<<p>> : p \in ParameterInputs}

\* The constructor wrapper (lines 128-137) run on an instance whose
\* subclass constructor validates its parameters argument (default {})
\* against DeclaredDefaults and then sets the class's ndim, bounds and
\* optimum.  Line 131 empties the parameters; an exception of the subclass
\* constructor (line 134) leaves the wrapper there.  Line 137 passes the
\* keyword arguments on to ObjectiveFunction.__init__(self), which takes
\* none: with any argument the call raises TypeError before __init__ runs.
\* Otherwise __init__ validates (lines 147-167) and stores its initial
\* fields (lines 169-175).
constructor(c, kwargs) ==
    /\ Idle(c)
    /\ LET parameters == IF kwargs = <<>> THEN <<>> ELSE kwargs[1]
           accepted == ParametersAccepted(parameters, DeclaredDefaults)
           emptied == [inst[c] EXCEPT !.parameters = <<>>]
           set == [emptied EXCEPT
                      !.parameters = StoreParameters(<<>>, parameters,
                                                     DeclaredDefaults),
                      !.ndim = Sphere.ndim,
                      !.search_space_bounds = Sphere.search_space_bounds,
                      !.optimal_solution_position =
                          Sphere.optimal_solution_position]
           initialised ==
               [set EXCEPT !.shift = Zeros(set.ndim),
                           !.noise_mean = 0,
                           !.noise_variance = 0,
                           !.nb_calls = 0]
           returns == /\ accepted
                      /\ kwargs = <<>>
                      /\ InitAccepts(set.ndim, set.search_space_bounds,
                                     set.optimal_solution_position)
       IN /\ inst' = [inst EXCEPT ![c] =
                         IF ~accepted THEN emptied
                         ELSE IF ~returns THEN set
                         ELSE initialised]
          /\ ret' = [ret EXCEPT ![c] =
                        Result("constructor", kwargs,
                               IF returns THEN Returned(<<>>) ELSE Raised)]
    /\ UNCHANGED <<file, sys_modules, pc, call, ctor, workload, saved, layout>>

\* Default settings a class declares and settings mappings a caller
\* supplies.  validate_settings writes instance attributes by name, so the
\* names include attributes the base class uses.
DefaultSettingsInputs ==
    {[ndim |-> 2], [nb_calls |-> 0, resolution |-> 1]}

SettingValues == [ndim |-> 3, nb_calls |-> 2, unknown |-> 1]

SettingsInputs ==
    {[k \in S |-> SettingValues[k]] : S \in SUBSET DOMAIN SettingValues}

\* validate_settings (lines 217-238): every name of default_settings
\* becomes an instance attribute holding the supplied value, or the default;
\* names that are not declared are passed over.
validate_settings(c, settings, default_settings) ==
    /\ Idle(c)
    /\ inst' = [inst EXCEPT ![c] =
                   [setting_name \in DOMAIN @ \cup DOMAIN default_settings |->
                       IF setting_name \in DOMAIN default_settings
                       THEN IF setting_name \in DOMAIN settings
                            THEN settings[setting_name]
                            ELSE default_settings[setting_name]
                       ELSE @[setting_name]]]
    /\ ret' = [ret EXCEPT ![c] =
                  Result("validate_settings", settings, Returned(<<>>))]
    /\ UNCHANGED <<file, sys_modules, pc, call, ctor, workload, saved, layout>>

InitWith(o, w) ==
    /\ inst = [c \in Threads |-> o]
    /\ file = <<>>
    /\ sys_modules = <<>>
    /\ pc = [c \in Threads |-> "idle"]
    /\ call = [c \in Threads |-> NoCall]
    /\ ret = [c \in Threads |-> NoResult]
    /\ ctor = NoCtor
    /\ workload = w
    /\ saved = <<>>
    /\ layout \in LayoutsOf(w)

\* One thread evaluating in parallel, call after call.
Init == InitWith(Sphere, "one_thread")

\* The noise settings the two threads' instances may have been given.
ConcNoises == [A |-> {<<0, 0>>, <<1, 0>>}, B |-> {<<0, 0>>, <<0, -1>>}]

\* Two threads of one process, each with its own instance; the instance of
\* thread B has had apply_shift(<<1, 1>>) applied, and each instance may have
\* had apply_noise applied.
InitConc ==
    /\ \E a \in ConcNoises.A : \E b \in ConcNoises.B :
           inst = [c \in Threads |->
                      IF c = "B"
                      THEN Noised(Shifted(Sphere, <<1, 1>>), b[1], b[2])
                      ELSE Noised(Sphere, a[1], a[2])]
    /\ file = <<>>
    /\ sys_modules = <<>>
    /\ pc = [c \in Threads |-> "idle"]
    /\ call = [c \in Threads |-> NoCall]
    /\ ret = [c \in Threads |-> NoResult]
    /\ ctor = NoCtor
    /\ workload = "two_threads"
    /\ saved = <<>>
    /\ layout \in LayoutsOf("two_threads")

\* One thread using the single-call interface.
\* No thread runs: constructions only.
InitCtor == InitWith(Sphere, "construction")

InitEval == InitWith(SphereWithOptimum, "single_call")

\* One thread validating parameters on an instance whose class declares
\* DeclaredDefaults.
InitParams == InitWith(Sphere, "parameters")

\* One thread saving and loading its instance between shifts and noise
\* settings.
InitStore == InitWith(SphereWithOptimum, "persistence")

Next ==
    \/ \E c \in Threads : \E s \in ShiftsOf(workload) : apply_shift(c, s)
    \/ \E c \in Threads : \E ps \in BatchesOf(workload) :
           decouple_evaluate_open(c, ps)
    \/ \E c \in Threads : decouple_evaluate_close(c)
    \/ \E c \in Threads : \E ps \in BatchesOf(workload) :
           decouple_evaluate_raises(c, ps)
    \/ \E c \in Threads : decouple_evaluate_write_raises(c)
    \/ \E c \in Threads : check_exists(c)
    \/ \E c \in Threads : import_decoupled(c)
    \/ \E c \in Threads : except_check(c)
    \/ \E c \in Threads : except_remove(c)
    \/ \E c \in Threads : \E max_workers \in MaxWorkersInputs :
           submit_all(c, max_workers)
    \/ \E c \in Threads : \E i \in 1..MaxPositions : \E z \in WorkerSamples(c) :
           worker_runs(c, i, z)
    \/ \E c \in Threads : \E i \in 1..MaxPositions : collect(c, i)
    \/ \E c \in Threads : pool_exit(c)
    \/ \E c \in Threads : pool_exit_raising(c)
    \/ \E c \in Threads : delete_check(c)
    \/ \E c \in Threads : delete_remove(c)
    \/ \E c \in Threads : call_over(c)

EvalNext ==
    \/ \E c \in Threads : \E s \in ShiftsOf(workload) : apply_shift(c, s)
    \/ \E c \in Threads : \E n \in NoiseInputs : apply_noise(c, n[1], n[2])
    \/ \E c \in Threads : \E p \in PositionInputs : call_instance(c, p)
    \/ \E c \in Threads : \E p \in PositionInputs :
           \E z \in [1..Len(p) -> Samples] : private_evaluate(c, p, z)
    \/ \E c \in Threads : \E p \in ConstraintInputs :
           \E t \in BoundsTypes : check_constraints(c, p, t)
    \/ \E c \in Threads : \E settings \in SettingsInputs :
           \E default_settings \in DefaultSettingsInputs :
               validate_settings(c, settings, default_settings)

ParamsNext ==
    \/ \E c \in Threads : \E kwargs \in KwargsInputs : constructor(c, kwargs)
    \/ \E c \in Threads : \E settings \in SettingsInputs :
           \E default_settings \in DefaultSettingsInputs :
               validate_settings(c, settings, default_settings)
    \/ \E c \in Threads : \E parameters \in ParameterInputs :
           validate_parameters(c, parameters, DeclaredDefaults)

StoreNext ==
    \/ \E c \in Threads : \E s \in ShiftsOf(workload) : apply_shift(c, s)
    \/ \E c \in Threads : \E n \in NoiseInputs : apply_noise(c, n[1], n[2])
    \/ \E c \in Threads : save(c)
    \/ \E c \in Threads : load(c)

CtorNext ==
    \/ \E ndim \in 1..MaxDim : \E n \in 0..(MaxDim + 1) :
           \E opt \in OptimumInputs : construct(ndim, BoundsOfLen(n), opt)
    \/ discard

Spec == Init /\ [][Next]_vars
SpecConc == InitConc /\ [][Next]_vars
SpecEval == InitEval /\ [][EvalNext]_vars
SpecCtor == InitCtor /\ [][CtorNext]_vars
SpecParams == InitParams /\ [][ParamsNext]_vars
SpecStore == InitStore /\ [][StoreNext]_vars

(**************************** properties ************************************)
\* A position the formula is defined for: one row of the instance's
\* dimensionality.
ValidPosition(o, position) == Len(position) = 1 /\ Len(position[1]) = o.ndim

\* A task that failed: it raised, or what it returned cannot be stored in
\* the results array.
Failed(out) == out.raised \/ ~Assignable(out)

\* C1: the vector parallel_evaluate returns has one entry per position, and
\* entry i holds the outcome of the task submitted for positions[i] (NaN
\* when that task raised), whatever the order in which the tasks completed.
C1_ResultsIndexStable ==
    \A c \in Threads : pc[c] = "returned" =>
        /\ Len(call[c].results) = Len(call[c].positions)
        /\ \A i \in 1..Len(call[c].positions) :
              LET out == RunDecoupled(call[c].evaluator[1],
                                      call[c].positions[i],
                                      ZeroSamples(call[c].evaluator[1]))
              IN /\ call[c].futures[i].out = out
                 /\ call[c].results[i] =
                       IF out.raised THEN NaN ELSE Num(out.val[1])

\* C1 witness: a call returned two different numeric results that were
\* collected in the reverse of the submission order.
C1_Witness ==
    \E c \in Threads :
        /\ pc[c] = "returned"
        /\ call[c].order = <<2, 1>>
        /\ call[c].results[1] # NaN
        /\ call[c].results[2] # NaN
        /\ call[c].results[1] # call[c].results[2]

\* C2: when tasks of a batch fail (raise, or yield an outcome that cannot be
\* used), the call still returns normally: no exception leaves the call once
\* tasks were submitted, every failing index holds NaN and every other index
\* holds the value its own task returned.
C2_FailuresIsolated ==
    \A c \in Threads :
        /\ call[c].futures # <<>> => pc[c] \notin {"unwind", "raised"}
        /\ pc[c] = "returned" =>
              \A i \in 1..Len(call[c].positions) :
                  LET out == call[c].futures[i].out
                  IN call[c].results[i] =
                        IF Failed(out) THEN NaN ELSE Num(out.val[1])

\* C3: once a parallel_evaluate call has exited (return or exception), the
\* staging file it wrote does not exist.
C3_StagingRemoved ==
    \A c \in Threads :
        pc[c] \in Exited /\ call[c].wrote =>
            ~(file # <<>> /\ file[1].owner = c)

\* C4: every in-flight call has a staging file of its own: from the moment
\* it wrote the file until it imported it, the file exists and is the one
\* this call wrote, and the evaluator a call hands to its workers is the
\* function of the text this call generated.
C4_CallScopedStaging ==
    \A c \in Threads :
        /\ pc[c] \in {"exists", "import"} =>
              file # <<>> /\ file[1].owner = c
        /\ call[c].evaluator # <<>> =>
              call[c].evaluator = <<Compile(call[c].snapshot[1])>>

\* C5: parallel_evaluate returns only after every task it submitted has
\* completed or failed and has been collected, with the pool shut down.
C5_ReturnsAfterAllTasks ==
    \A c \in Threads : pc[c] = "returned" =>
        /\ Len(call[c].futures) = Len(call[c].positions)
        /\ Joined(c)
        /\ Exhausted(c)
        /\ call[c].pool = "shutdown"

\* C5 witness: a call with two positions returned.
C5_Witness ==
    \E c \in Threads :
        /\ pc[c] = "returned"
        /\ Len(call[c].positions) = 2
        /\ call[c].pool = "shutdown"

\* C6: when building the decoupled evaluator fails, the call raises before
\* any task is submitted (no pool, no future), it never goes on to the pool,
\* and when the error reaches the caller the staging file is gone.
C6_FatalBeforeSubmission ==
    \A c \in Threads :
        /\ call[c].exc \in {"DecoupleError", "ImportError"} =>
              pc[c] \in {"except", "except_remove", "fatal"}
        /\ pc[c] \in {"except", "except_remove", "fatal"} =>
              call[c].futures = <<>> /\ call[c].pool = "none"
        /\ pc[c] = "fatal" => file = <<>>

\* C6 witness: the import of a staging file this call wrote failed, and the
\* call raised with the file removed.
C6_Witness ==
    \E c \in Threads :
        /\ pc[c] = "fatal"
        /\ call[c].wrote
        /\ call[c].exc = "ImportError"
        /\ file = <<>>

\* C7: on a noise-free instance every result of parallel_evaluate for a
\* valid position equals formula(position - shift), as the single-call
\* wrapped evaluator computes it.
C7_ParallelMatchesWrapped ==
    \A c \in Threads : pc[c] = "returned" =>
        \A i \in 1..Len(call[c].positions) :
            ValidPosition(inst[c], call[c].positions[i]) =>
                call[c].results[i] =
                    Num(WrappedValue(inst[c], call[c].positions[i],
                                     <<0>>).val[1])

\* C8: after apply_shift(s) on a noise-free instance, calling the instance
\* at a position returns the unshifted formula's value at position - s.
C8_CallAppliesShift ==
    \A c \in Threads :
        (/\ ret[c].op = "call"
         /\ inst[c].noise_mean = 0
         /\ inst[c].noise_variance = 0
         /\ ValidPosition(inst[c], ret[c].arg)) =>
            ret[c].out = Returned(evaluate(Unshift(ret[c].arg, inst[c].shift)))

\* C9: every single-position evaluation of the instance (calling it, or the
\* wrapped evaluator) increments the call counter by exactly one, and no
\* step decreases the counter.
C9_EveryEvaluationCounted ==
    [][\A c \in Threads :
          /\ inst'[c].nb_calls >= inst[c].nb_calls
          /\ (ret'[c] # ret[c] /\ ret'[c].op \in {"call", "__evaluate"}) =>
                inst'[c].nb_calls = inst[c].nb_calls + 1]_vars

\* C10: a construction that completes yields bounds of length ndim and
\* optimum points of dimension ndim; a construction whose bounds length or
\* optimum dimension differs from ndim is rejected.
C10_ConstructionValidated ==
    /\ ctor.state = "built" =>
          /\ Len(ctor.obj[1].search_space_bounds) = ctor.obj[1].ndim
          /\ \A k \in 1..Len(ctor.obj[1].optimal_solution_position.pts) :
                Len(ctor.obj[1].optimal_solution_position.pts[k]) =
                    ctor.obj[1].ndim
    /\ (ctor.state # "none" /\
        (\/ Len(ctor.bounds) # ctor.ndim
         \/ \E k \in 1..Len(ctor.opt.pts) : Len(ctor.opt.pts[k]) # ctor.ndim)) =>
          ctor.state = "rejected"

\* C11: once validate_parameters has returned, the instance's parameters
\* have exactly the declared default keys, each with the supplied value if
\* one was supplied and the default otherwise; a supplied key that is not
\* declared makes validate_parameters raise.
C11_ParametersValidated ==
    \A c \in ThreadsOf(workload) :
        ret[c].op = "validate_parameters" =>
            IF \E k \in DOMAIN ret[c].arg : k \notin DOMAIN DeclaredDefaults
            THEN ret[c].out.raised
            ELSE /\ ~ret[c].out.raised
                 /\ DOMAIN inst[c].parameters = DOMAIN DeclaredDefaults
                 /\ \A k \in DOMAIN DeclaredDefaults :
                        inst[c].parameters[k] =
                            IF k \in DOMAIN ret[c].arg
                            THEN ret[c].arg[k] ELSE DeclaredDefaults[k]

\* Validation returned for a mapping that supplies one declared parameter
\* and leaves the other to its default.
C11_Witness ==
    /\ ret["A"].op = "validate_parameters"
    /\ ~ret["A"].out.raised
    /\ DOMAIN ret["A"].arg = {"a"}
    /\ inst["A"].parameters = [a |-> 5, b |-> 2]

\* C12: parallel_evaluate produces a results vector only for a non-empty
\* positions collection in which every position has the instance's
\* dimensionality; any other collection is rejected with an error.
C12_InputsValidated ==
    \A c \in ThreadsOf(workload) :
        pc[c] = "returned" =>
            /\ call[c].positions # <<>>
            /\ \A i \in 1..Len(call[c].positions) :
                   ValidPosition(inst[c], call[c].positions[i])

\* C13: save returns, leaves the instance as it was, and a load of the
\* path it wrote returns an instance with the saved instance's state, which
\* evaluates every position (noise sample 0) to the same value.
C13_SaveLoadRoundTrip ==
    \A c \in ThreadsOf(workload) :
        ret[c].op = "save" =>
            /\ ~ret[c].out.raised
            /\ ~LoadValue(saved).raised
            /\ LoadValue(saved).val = <<inst[c]>>
            /\ \A p \in PositionInputs :
                   WrappedValue(LoadValue(saved).val[1], p,
                                [k \in 1..Len(p) |-> 0])
                       = WrappedValue(inst[c], p, [k \in 1..Len(p) |-> 0])

\* C14: on an instance with search-space bounds, check_constraints returns
\* TRUE when every coordinate of the position lies within its bounds and
\* FALSE otherwise.
C14_ConstraintsChecked ==
    \A c \in ThreadsOf(workload) :
        (ret[c].op = "check_constraints"
             /\ inst[c].search_space_bounds # <<>>) =>
            /\ ~ret[c].out.raised
            /\ ret[c].out.val =
                  <<\A d \in 1..Len(ret[c].arg[1]) :
                        /\ inst[c].search_space_bounds[d][1] <= ret[c].arg[1][d]
                        /\ ret[c].arg[1][d] <= inst[c].search_space_bounds[d][2]>>

\* C15: the noise variance of an instance is never negative and its shift
\* vector always has as many coordinates as the instance has dimensions.
C15_NoiseAndShiftValid ==
    \A c \in ThreadsOf(workload) :
        /\ inst[c].noise_variance >= 0
        /\ Len(inst[c].shift) = inst[c].ndim

\* C16: every task of a parallel_evaluate call computes what the code
\* generated by that call computes for its position, whatever calls and
\* apply_shift calls came before in the process.
C16_SnapshotPerCall ==
    \A c \in ThreadsOf(workload) :
        \A i \in 1..Len(call[c].futures) :
            (call[c].futures[i].st = "done" /\ call[c].snapshot # <<>>) =>
                LET fn == Compile(call[c].snapshot[1])
                IN /\ fn.valid
                   /\ call[c].futures[i].out
                          = RunDecoupled(fn, call[c].positions[i],
                                         ZeroSamples(fn))

\* C17: the stored optimum of an instance built with an optimum is the
\* optimum it was built with, translated by the shift it currently stores.
C17_OptimumFollowsShift ==
    \A c \in ThreadsOf(workload) :
        LET opt == inst[c].optimal_solution_position
            original == SphereWithOptimum.optimal_solution_position
        IN opt.kind # "none" =>
               \A k \in 1..Len(opt.pts) :
                   opt.pts[k] = VecIAdd(original.pts[k], inst[c].shift)

============================================================================
